---------------------------- MODULE Spec2Model ----------------------------
(***************************************************************************)
(* A model of ext/nokogumbo/nokogumbo.c, object-model backend (the code    *)
(* compiled when NGLIB is not defined): find_dummy_key, xmlNewProp,        *)
(* walk_element, walk_tree, new_html_doc and parse.                        *)
(*                                                                         *)
(* C strings are sequences of one-character strings; NUL is the zero byte. *)
(* Ruby strings are the same sequences without a terminator.  Qnil is a    *)
(* value no string equals.                                                 *)
(***************************************************************************)
EXTENDS Integers, Sequences, FiniteSets, TLC

VARIABLES
  kpc, collection, key,        \* find_dummy_key on its own
  node, ret, last, failures,   \* xmlNewProp on its own
  hdoc,                        \* new_html_doc on its own
  wpc, pool, attrs, kids, w,
                               \* walk_element
  pc, output, doc, idx, rerrors, url, destroyed, readFreed
                               \* parse

keyVars   == <<kpc, collection, key>>
propVars  == <<node, ret, last, failures, hdoc>>
walkVars  == <<wpc, pool, attrs, kids, w>>
parseVars == <<pc, output, doc, idx, rerrors, url, destroyed, readFreed>>
vars      == <<keyVars, propVars, walkVars, parseVars>>

---------------------------------------------------------------------------
(* Bounds.                                                                 *)

\* The letters find_dummy_key counts through: the source has 'a'..'z' (26);
\* the model counts through the first NumLetters of them.
NumLetters == 2
\* sizeof dummy: the source has 5 (keys of 1 to 4 letters); the model DummySize.
DummySize == 3
\* The collections find_dummy_key is tried on hold at most, or lack at most,
\* this many candidate keys.
MaxMissing == 2

\* The source's own values, for the count of candidate keys.
SourceLetters == 26
SourceDummySize == 5

---------------------------------------------------------------------------
(* Characters and strings.                                                 *)

NUL  == "NUL"
Qnil == <<"nil">>

Letters == <<"a", "b", "c", "d", "e", "f", "g", "h", "i", "j", "k", "l", "m",
             "n", "o", "p", "q", "r", "s", "t", "u", "v", "w", "x", "y", "z">>

Alphabet == {Letters[i] : i \in 1..NumLetters}

\* 'z', the letter after which a position wraps to 'a'
LastLetter == Letters[NumLetters]

LetterIndex(c) == CHOOSE i \in 1..Len(Letters) : Letters[i] = c

\* ++dummy[i] on a letter below LastLetter
NextChar(c) == Letters[LetterIndex(c) + 1]

\* strlen: the bytes before the first zero byte of a buffer
RECURSIVE strlenFrom(_, _)
strlenFrom(buf, i) ==
  IF i > Len(buf) \/ buf[i] = NUL THEN i - 1 ELSE strlenFrom(buf, i + 1)

strlen(buf) == strlenFrom(buf, 1)

\* rb_str_new2(s), rb_str_new(s, strlen(s)): the Ruby string of a C string
rb_str_new2(buf) == SubSeq(buf, 1, strlen(buf))

\* rb_str_new(s, n): the first n bytes, whatever they are
rb_str_new(buf, n) == SubSeq(buf, 1, n)

\* memchr(name, ':', len) != NULL
HasColon(s) == \E i \in 1..Len(s) : s[i] = ":"

---------------------------------------------------------------------------
(* The DOM library (Nokogiri) as the source uses it.  An attribute is a    *)
(* record [ns, name, value]; an element keeps its attributes in a list.    *)

\* no namespace on an attribute
NoNs == <<>>

Attr(ns, n, v) == [ns |-> ns, name |-> n, value |-> v]

NewNode(kind, n, text) ==
  [kind |-> kind, name |-> n, text |-> text, attrs |-> <<>>, children |-> <<>>]

NIL == NewNode("nil", <<>>, <<>>)

AttrIndex(nd, n) ==
  IF \E i \in 1..Len(nd.attrs) : nd.attrs[i].name = n /\ nd.attrs[i].ns = NoNs
  THEN CHOOSE i \in 1..Len(nd.attrs) : nd.attrs[i].name = n /\ nd.attrs[i].ns = NoNs
  ELSE 0

\* collection.key?(k)
HasKey(nd, k) == AttrIndex(nd, k) # 0

\* The part of a qualified name before its first colon, and the part after it.
ColonAt(s) == CHOOSE i \in 1..Len(s) : s[i] = ":" /\ \A j \in 1..(i - 1) : s[j] # ":"
PrefixOf(s) == SubSeq(s, 1, ColonAt(s) - 1)
LocalOf(s)  == SubSeq(s, ColonAt(s) + 1, Len(s))

\* The prefixes set_attribute finds a namespace for: the walk declares no
\* namespace on the document, and the lookup of "xml" creates it.
KnownPrefixes == { <<"x", "m", "l">> }

\* xmlSetNsProp(node, ns, local, value): the value of the attribute of that
\* namespace and name is replaced where it stands, a new one goes last.
xmlSetNsProp(nd, ns, n, v) ==
  IF \E i \in 1..Len(nd.attrs) : nd.attrs[i].name = n /\ nd.attrs[i].ns = ns
  THEN LET i == CHOOSE j \in 1..Len(nd.attrs) :
                   nd.attrs[j].name = n /\ nd.attrs[j].ns = ns
       IN  [nd EXCEPT !.attrs[i].value = v]
  ELSE [nd EXCEPT !.attrs = Append(@, Attr(ns, n, v))]

\* node.set_attribute(name, value), that is xmlSetProp: a name prefix:local whose
\* prefix has a namespace becomes the attribute local of that namespace.
\* ok is whether the library carries the call out; a failed call changes nothing
\* and answers nil.
set_attribute(nd, n, v, ok) ==
  IF ~ok THEN [node |-> nd, ret |-> Qnil]
  ELSE IF HasColon(n) /\ ColonAt(n) > 1 /\ PrefixOf(n) \in KnownPrefixes
       THEN [node |-> xmlSetNsProp(nd, PrefixOf(n), LocalOf(n), v), ret |-> v]
       ELSE [node |-> xmlSetNsProp(nd, NoNs, n, v), ret |-> v]

\* node.remove_attribute(name): the attribute named so, if there is one
remove_attribute(nd, n) ==
  [nd EXCEPT !.attrs = SelectSeq(@, LAMBDA a : ~(a.name = n /\ a.ns = NoNs))]

\* node.attribute(name): the place of the attribute named so in the node's list,
\* 0 for nil.  ok is whether the library finds what is there.
attribute(nd, n, ok) == IF ok THEN AttrIndex(nd, n) ELSE 0

\* attr.node_name = name, on the attribute at place i
node_name_(nd, i, n) == [nd EXCEPT !.attrs[i].name = n]

---------------------------------------------------------------------------
(* find_dummy_key                                                          *)

\* char dummy[sizeof dummy] = "a"
InitialDummy == [i \in 1..DummySize |-> IF i = 1 THEN "a" ELSE NUL]

\* NextDummy with the wrap to 'a' left out: a position at LastLetter stays there.
RECURSIVE NextDummyNoWrap(_, _, _)
NextDummyNoWrap(dummy, len, i) ==
  IF dummy[i] = NUL
  THEN [dummy |-> [dummy EXCEPT ![i] = "a"], len |-> len + 1]
  ELSE IF dummy[i] = LastLetter
       THEN NextDummyNoWrap(dummy, len, i + 1)
       ELSE [dummy |-> [dummy EXCEPT ![i] = NextChar(dummy[i])], len |-> len]

\* The inner for loop: step dummy to the next key.  i counts from 1 here.
RECURSIVE NextDummy(_, _, _)
NextDummy(dummy, len, i) ==
  IF dummy[i] = NUL
  THEN [dummy |-> [dummy EXCEPT ![i] = "a"], len |-> len + 1]
  ELSE IF dummy[i] = LastLetter
       THEN NextDummy([dummy EXCEPT ![i] = "a"], len, i + 1)
       ELSE [dummy |-> [dummy EXCEPT ![i] = NextChar(dummy[i])], len |-> len]

\* The while loop, from the buffer and length it stands at.
RECURSIVE FindFrom(_, _, _)
FindFrom(coll, dummy, len) ==
  IF len < DummySize
  THEN LET r_dummy == rb_str_new(dummy, len)
       IN  IF ~HasKey(coll, r_dummy)
           THEN r_dummy
           ELSE LET n == NextDummy(dummy, len, 1)
                IN  FindFrom(coll, n.dummy, n.len)
  ELSE Qnil

find_dummy_key(coll) == FindFrom(coll, InitialDummy, 1)

---------------------------------------------------------------------------
(* xmlNewProp                                                              *)

\* xmlNewProp without the dummy attribute: set_attribute under the name given.
xmlNewPropDirect(nd, nm, value, setOk, lookupOk) ==
  set_attribute(nd, rb_str_new(nm, strlen(nm)), rb_str_new2(value), setOk)

\* xmlNewProp that looks the dummy attribute up before it removes the old one.
xmlNewPropLookupFirst(nd, nm, value, setOk, lookupOk) ==
  LET r_name == rb_str_new(nm, strlen(nm)) IN
  IF ~HasColon(r_name)
  THEN set_attribute(nd, r_name, rb_str_new2(value), setOk)
  ELSE
    LET dummy == find_dummy_key(nd) IN
    IF dummy = Qnil THEN [node |-> nd, ret |-> Qnil]
    ELSE
      LET s == set_attribute(nd, dummy, rb_str_new2(value), setOk) IN
      IF s.ret = Qnil \/ attribute(s.node, dummy, lookupOk) = 0
      THEN [node |-> s.node, ret |-> Qnil]
      ELSE
        LET removed == remove_attribute(s.node, r_name)
            attr    == attribute(removed, dummy, lookupOk)
        IN  [node |-> node_name_(removed, attr, r_name),
             ret  |-> removed.attrs[attr].value]

\* xmlNewProp that, finding no dummy key, sets the attribute under its own name.
xmlNewPropSetAnyway(nd, nm, value, setOk, lookupOk) ==
  LET r_name == rb_str_new(nm, strlen(nm)) IN
  IF ~HasColon(r_name) \/ find_dummy_key(nd) = Qnil
  THEN set_attribute(nd, r_name, rb_str_new2(value), setOk)
  ELSE
    LET dummy   == find_dummy_key(nd)
        s       == set_attribute(nd, dummy, rb_str_new2(value), setOk)
        removed == remove_attribute(s.node, r_name)
        attr    == attribute(removed, dummy, lookupOk)
    IN  IF s.ret = Qnil THEN [node |-> s.node, ret |-> Qnil]
        ELSE IF attr = 0 THEN [node |-> removed, ret |-> Qnil]
        ELSE [node |-> node_name_(removed, attr, r_name),
              ret  |-> removed.attrs[attr].value]

\* nm and value are C strings.  setOk and lookupOk are whether set_attribute
\* and attribute carry their calls out.  The result is the node as the call
\* leaves it and what the call returns (Qnil, or the attribute's value where the
\* source returns the attribute or the value set).
xmlNewProp(nd, nm, value, setOk, lookupOk) ==
  LET len    == strlen(nm)
      r_name == rb_str_new(nm, len)
  IN
  IF ~HasColon(r_name)
  THEN set_attribute(nd, r_name, rb_str_new2(value), setOk)
  ELSE
    LET dummy == find_dummy_key(nd) IN
    IF dummy = Qnil THEN [node |-> nd, ret |-> Qnil]
    ELSE
      LET s == set_attribute(nd, dummy, rb_str_new2(value), setOk) IN
      IF s.ret = Qnil THEN [node |-> s.node, ret |-> Qnil]
      ELSE
        LET removed == remove_attribute(s.node, r_name)
            attr    == attribute(removed, dummy, lookupOk)
        IN  IF attr = 0 THEN [node |-> removed, ret |-> Qnil]
            ELSE [node |-> node_name_(removed, attr, r_name),
                  ret  |-> removed.attrs[attr].value]

---------------------------------------------------------------------------
(* The parse tree (gumbo.h), read only.  A string field holds the bytes    *)
(* the parser wrote; the memory behind its pointer is those bytes and a    *)
(* terminating zero byte.                                                  *)

CStr(bytes) == bytes \o <<NUL>>

GumboAttribute(ns, n, v) == [attr_namespace |-> ns, name |-> n, value |-> v]

GumboNode(type, n, attributes, children, text) ==
  [type |-> type, name |-> n, attributes |-> attributes,
   children |-> children, text |-> text]

---------------------------------------------------------------------------
(* The heap buffer walk_element builds qualified names in.                 *)

NULLPTR == <<"NULL">>
JUNK    == "?"

\* malloc(n): n bytes nobody has written
malloc(n) == [i \in 1..n |-> JUNK]

\* Write bytes at offset off (from 0) of buf.  A byte past the end of buf is a
\* heap overflow: it is recorded, and the byte is not kept.
WriteAt(buf, off, bytes) ==
  [buf      |-> [i \in 1..Len(buf) |->
                   IF i > off /\ i <= off + Len(bytes) THEN bytes[i - off] ELSE buf[i]],
   overflow |-> off + Len(bytes) > Len(buf)]

\* strcpy(dst, src) and strcat(dst, src), src a C string
strcpy(dst, src) == WriteAt(dst, 0, CStr(rb_str_new2(src)))
strcat(dst, src) == WriteAt(dst, strlen(dst), CStr(rb_str_new2(src)))

---------------------------------------------------------------------------
(* walk_element and walk_tree                                              *)

XLinkPrefix == <<"x", "l", "i", "n", "k", ":">>
XmlPrefix   == <<"x", "m", "l", ":">>
XmlnsPrefix == <<"x", "m", "l", "n", "s", ":">>
XmlnsName   == <<"x", "m", "l", "n", "s">>

\* The switch on attr->attr_namespace: the prefix as a C string, or NULL.
NsOf(attr) ==
  CASE attr.attr_namespace = "XLINK" -> CStr(XLinkPrefix)
    [] attr.attr_namespace = "XML"   -> CStr(XmlPrefix)
    [] attr.attr_namespace = "XMLNS" ->
         IF rb_str_new2(CStr(attr.name)) = XmlnsName THEN NULLPTR
         ELSE CStr(XmlnsPrefix)
    [] OTHER -> NULLPTR

\* The state of the attribute loop before its first iteration.
WalkStart(n) ==
  [element  |-> NewNode("element", rb_str_new2(CStr(n)), <<>>),
   name     |-> NULLPTR,
   namelen  |-> 0,
   handed   |-> <<>>,
   skipped  |-> {},
   overflow |-> FALSE]

\* AttrStep that keeps a name buffer it has, whatever its size.
AttrStepNoGrow(st, attr, i) ==
  LET ns == NsOf(attr) IN
  IF ns # NULLPTR
  THEN
    LET need   == strlen(ns) + strlen(CStr(attr.name)) + 1
        newlen == IF st.name = NULLPTR THEN need ELSE st.namelen
        buf    == IF st.name = NULLPTR THEN malloc(newlen) ELSE st.name
        c1     == strcpy(buf, ns)
        c2     == strcat(c1.buf, CStr(attr.name))
        r      == xmlNewProp(st.element, c2.buf, CStr(attr.value), TRUE, TRUE)
    IN  [element  |-> r.node,
         name     |-> c2.buf,
         namelen  |-> newlen,
         handed   |-> Append(st.handed, rb_str_new2(c2.buf)),
         skipped  |-> IF r.ret = Qnil THEN st.skipped \cup {i} ELSE st.skipped,
         overflow |-> st.overflow \/ c1.overflow \/ c2.overflow]
  ELSE
    LET r == xmlNewProp(st.element, CStr(attr.name), CStr(attr.value), TRUE, TRUE)
    IN  [st EXCEPT !.element = r.node,
                   !.handed  = Append(@, rb_str_new2(CStr(attr.name))),
                   !.skipped = IF r.ret = Qnil THEN @ \cup {i} ELSE @]

\* One iteration of the attribute loop, on the i-th attribute.  handed lists the
\* names given to xmlNewProp so far, skipped the iterations whose call returned
\* nil (the source drops what xmlNewProp returns).
AttrStep(st, attr, i) ==
  LET ns == NsOf(attr) IN
  IF ns # NULLPTR
  THEN
    LET need   == strlen(ns) + strlen(CStr(attr.name)) + 1
        kept   == IF need > st.namelen THEN NULLPTR ELSE st.name
        newlen == IF kept = NULLPTR THEN need ELSE st.namelen
        buf    == IF kept = NULLPTR THEN malloc(newlen) ELSE kept
        c1     == strcpy(buf, ns)
        c2     == strcat(c1.buf, CStr(attr.name))
        r      == xmlNewProp(st.element, c2.buf, CStr(attr.value), TRUE, TRUE)
    IN  [element  |-> r.node,
         name     |-> c2.buf,
         namelen  |-> newlen,
         handed   |-> Append(st.handed, rb_str_new2(c2.buf)),
         skipped  |-> IF r.ret = Qnil THEN st.skipped \cup {i} ELSE st.skipped,
         overflow |-> st.overflow \/ c1.overflow \/ c2.overflow]
  ELSE
    LET r == xmlNewProp(st.element, CStr(attr.name), CStr(attr.value), TRUE, TRUE)
    IN  [st EXCEPT !.element = r.node,
                   !.handed  = Append(@, rb_str_new2(CStr(attr.name))),
                   !.skipped = IF r.ret = Qnil THEN @ \cup {i} ELSE @]

\* xmlAddChild(element, node)
xmlAddChild(el, nd) == [el EXCEPT !.children = Append(@, nd)]

RECURSIVE walk_tree(_), walk_element(_), WalkAttrs(_, _, _), WalkChildren(_, _, _)

\* The attribute loop from iteration i on.
WalkAttrs(st, attributes, i) ==
  IF i > Len(attributes) THEN st
  ELSE WalkAttrs(AttrStep(st, attributes[i], i), attributes, i + 1)

\* ChildStep that puts the node before the children the element has.
ChildStepFirst(el, child) ==
  LET nd == walk_tree(child)
  IN  IF nd # NIL THEN [el EXCEPT !.children = <<nd>> \o @] ELSE el

\* One iteration of the children loop.
ChildStep(el, child) ==
  LET nd == walk_tree(child)
  IN  IF nd # NIL THEN xmlAddChild(el, nd) ELSE el

\* The children loop from iteration i on.
WalkChildren(el, children, i) ==
  IF i > Len(children) THEN el
  ELSE WalkChildren(ChildStep(el, children[i]), children, i + 1)

walk_element(gn) ==
  WalkChildren(WalkAttrs(WalkStart(gn.name), gn.attributes, 1).element,
               gn.children, 1)

\* walk_tree that gives a CDATA node every byte the parser wrote.
walk_treeWholePayload(gn) ==
  CASE gn.type = "DOCUMENT" -> NIL
    [] gn.type \in {"ELEMENT", "TEMPLATE"} -> walk_element(gn)
    [] gn.type \in {"TEXT", "WHITESPACE"} ->
         NewNode("text", <<>>, rb_str_new2(CStr(gn.text)))
    [] gn.type = "CDATA" ->
         NewNode("cdata", <<>>, rb_str_new(CStr(gn.text), Len(gn.text)))
    [] gn.type = "COMMENT" ->
         NewNode("comment", <<>>, rb_str_new2(CStr(gn.text)))

walk_tree(gn) ==
  CASE gn.type = "DOCUMENT" -> NIL
    [] gn.type \in {"ELEMENT", "TEMPLATE"} -> walk_element(gn)
    [] gn.type \in {"TEXT", "WHITESPACE"} ->
         NewNode("text", <<>>, rb_str_new2(CStr(gn.text)))
    [] gn.type = "CDATA" ->
         NewNode("cdata", <<>>, rb_str_new(CStr(gn.text), strlen(CStr(gn.text))))
    [] gn.type = "COMMENT" ->
         NewNode("comment", <<>>, rb_str_new2(CStr(gn.text)))

---------------------------------------------------------------------------
(* new_html_doc, and the document calls of the DOM library it makes.       *)

NoSubset == [present |-> FALSE, name |-> <<>>, external |-> Qnil, system |-> Qnil]

\* Document.new(uri, external_id), that is htmlNewDoc: with neither argument
\* the library's default identifiers, and an internal subset named "html" with
\* the identifiers it ends with.  A nil argument is none; an empty string is one.
\* made is whether the library makes that subset.
DocumentNew(uri, external_id, made) ==
  LET both_nil == uri = Qnil /\ external_id = Qnil
      ext      == IF both_nil THEN <<"-//W3C//DTD HTML 4.0 Transitional//EN">>
                  ELSE external_id
      sys      == IF both_nil THEN <<"http://www.w3.org/TR/REC-html40/loose.dtd">>
                  ELSE uri
  IN  [subset   |-> IF made
                    THEN [present |-> TRUE, name |-> <<"h", "t", "m", "l">>,
                          external |-> ext, system |-> sys]
                    ELSE NoSubset,
       children |-> <<>>,
       errors   |-> <<>>,
       raised   |-> FALSE]

\* doc.internal_subset.remove: internal_subset answers nil when the document
\* has none, and nil has no method remove (NoMethodError).
RemoveInternalSubset(d) ==
  IF d.subset.present THEN [d EXCEPT !.subset = NoSubset]
  ELSE [d EXCEPT !.raised = TRUE]

\* doc.internal_subset.node_name = name, raising on nil in the same way
RenameInternalSubset(d, n) ==
  IF d.subset.present THEN [d EXCEPT !.subset.name = n]
  ELSE [d EXCEPT !.raised = TRUE]

\* doc.create_internal_subset(name, external_id, system_id)
create_internal_subset(d, n, external_id, system_id) ==
  IF d.subset.present THEN [d EXCEPT !.raised = TRUE]
  ELSE [d EXCEPT !.subset = [present |-> TRUE, name |-> n,
                             external |-> external_id, system |-> system_id]]

\* new_html_doc with the public identifier passed as the URI and the system
\* identifier as the external id.
new_html_docSwapped(dtd_name, system, public, made) ==
  IF system = NULLPTR /\ public = NULLPTR
  THEN LET d == RemoveInternalSubset(DocumentNew(Qnil, <<>>, made))
       IN  IF d.raised \/ dtd_name = NULLPTR THEN d
           ELSE create_internal_subset(d, rb_str_new2(dtd_name), Qnil, Qnil)
  ELSE LET r_system == IF system # NULLPTR THEN rb_str_new2(system) ELSE Qnil
           r_public == IF public # NULLPTR THEN rb_str_new2(public) ELSE Qnil
           d        == DocumentNew(r_public, r_system, made)
       IN  IF dtd_name = NULLPTR THEN [d EXCEPT !.raised = TRUE]
           ELSE RenameInternalSubset(d, rb_str_new2(dtd_name))

\* The arguments are C strings or NULL.  A raised document is one the call did
\* not return: an exception, or the assert on dtd_name, ended it.
new_html_doc(dtd_name, system, public, made) ==
  IF system = NULLPTR /\ public = NULLPTR
  THEN LET d == RemoveInternalSubset(DocumentNew(Qnil, <<>>, made))
       IN  IF d.raised \/ dtd_name = NULLPTR THEN d
           ELSE create_internal_subset(d, rb_str_new2(dtd_name), Qnil, Qnil)
  ELSE LET r_system == IF system # NULLPTR THEN rb_str_new2(system) ELSE Qnil
           r_public == IF public # NULLPTR THEN rb_str_new2(public) ELSE Qnil
           d        == DocumentNew(r_system, r_public, made)
       IN  IF dtd_name = NULLPTR THEN [d EXCEPT !.raised = TRUE]
           ELSE RenameInternalSubset(d, rb_str_new2(dtd_name))

\* No call yet, in the parts that try xmlNewProp and new_html_doc on their own.
NoCall == [name |-> <<>>, value |-> <<>>, setOk |-> TRUE, lookupOk |-> TRUE,
           before |-> NIL, called |-> FALSE]
NoDoc  == [dtd_name |-> NULLPTR, system |-> NULLPTR, public |-> NULLPTR,
           made |-> TRUE, doc |-> DocumentNew(Qnil, Qnil, FALSE), called |-> FALSE]

---------------------------------------------------------------------------
(* parse: what it reads and what it builds.                                *)

\* GumboOutput: the document node's fields, the root (its place among the
\* document's children, 0 for none) and the errors.  alive is whether
\* gumbo_destroy_output has not freed it yet.
GumboOutput(has_doctype, n, public, system, children, root, errors) ==
  [has_doctype |-> has_doctype, name |-> n, public_identifier |-> public,
   system_identifier |-> system, children |-> children, root |-> root,
   errors |-> errors, alive |-> TRUE]

NoOutput == [GumboOutput(FALSE, <<>>, <<>>, <<>>, <<>>, 0, <<>>) EXCEPT !.alive = FALSE]

\* GumboError: its type and position
GumboError(type, line, column) == [type |-> type, line |-> line, column |-> column]

\* gumbo_caret_diagnostic_to_string(err, input, input_len, &msg): the message
\* the parser renders for an error
CaretDiagnostic(err) == <<"caret", err.type, err.line, err.column>>

\* The syntax error with line and column taken from each other's field.
SyntaxErrorSwapped(err, file) ==
  [message |-> CaretDiagnostic(err), domain |-> 1, code |-> 1, level |-> 2,
   file |-> file, line |-> err.column, str1 |-> Qnil, str2 |-> Qnil, str3 |-> Qnil,
   int1 |-> err.type, column |-> err.line]

\* The syntax error parse makes of one parser error.
SyntaxError(err, file) ==
  [message |-> CaretDiagnostic(err), domain |-> 1, code |-> 1, level |-> 2,
   file |-> file, line |-> err.line, str1 |-> Qnil, str2 |-> Qnil, str3 |-> Qnil,
   int1 |-> err.type, column |-> err.column]

\* public[0] ? public : NULL, on a C string
NullIfEmpty(cstr) == IF cstr[1] # NUL THEN cstr ELSE NULLPTR

\* The document parse starts from: lines 290 to 299.
SynthesizedDoc(out) ==
  IF out.has_doctype
  THEN new_html_doc(CStr(out.name),
                    NullIfEmpty(CStr(out.system_identifier)),
                    NullIfEmpty(CStr(out.public_identifier)), TRUE)
  ELSE new_html_doc(NULLPTR, NULLPTR, NULLPTR, TRUE)

\* xmlDocSetRootElement(doc, root) and xmlAddChild(doc, node): doc.add_child
xmlDocSetRootElement(d, nd) == [d EXCEPT !.children = Append(@, nd)]

\* One iteration of the loop over the document's children, on the i-th child.
TopStep(d, out, i) ==
  LET nd == walk_tree(out.children[i])
  IN  IF nd # NIL
      THEN IF i = out.root THEN xmlDocSetRootElement(d, nd) ELSE xmlAddChild(d, nd)
      ELSE d

---------------------------------------------------------------------------
(* Values the variables of a part hold while another part runs.            *)

KeyOff   == kpc = "off" /\ collection = NIL /\ key = Qnil
PropOff  == node = NIL /\ ret = Qnil /\ last = NoCall /\ failures = 0 /\ hdoc = NoDoc
WalkOff  == wpc = "off" /\ pool = {} /\ attrs = <<>> /\ kids = <<>> /\ w = <<>>
ParseOff == /\ pc = "off" /\ output = NoOutput /\ doc = NoDoc.doc /\ idx = 0
            /\ rerrors = <<>> /\ url = <<>> /\ destroyed = 0 /\ readFreed = FALSE

---------------------------------------------------------------------------
(* find_dummy_key on its own: a collection, then the call.                 *)

\* Every key find_dummy_key can try: 1 to DummySize - 1 letters.
AllKeys == UNION { [1..n -> Alphabet] : n \in 1..(DummySize - 1) }

\* The sets of at most k keys.
RECURSIVE KeySetsUpTo(_)
KeySetsUpTo(k) ==
  IF k = 0 THEN { {} }
  ELSE LET P == KeySetsUpTo(k - 1)
       IN  P \cup { s \cup {x} : s \in P, x \in AllKeys }

\* Keys a collection may hold that find_dummy_key never tries: one letter too
\* long, a letter past LastLetter, a name with a colon.
OtherKeys ==
  { [i \in 1..DummySize |-> "a"], <<Letters[NumLetters + 1]>>, <<"x", ":", "y">> }

RECURSIVE SeqOfSet(_)
SeqOfSet(S) ==
  IF S = {} THEN <<>>
  ELSE LET x == CHOOSE y \in S : TRUE IN <<x>> \o SeqOfSet(S \ {x})

\* An element whose attributes are the keys of S, each with value "1".
NodeWithKeys(S) ==
  LET keys == SeqOfSet(S)
  IN  [NewNode("element", <<"p">>, <<>>) EXCEPT
         !.attrs = [i \in 1..Len(keys) |-> Attr(NoNs, keys[i], <<"1">>)]]

KeyCollections ==
  { NodeWithKeys(S \cup O) :
      S \in KeySetsUpTo(MaxMissing) \cup { AllKeys \ T : T \in KeySetsUpTo(MaxMissing) },
      O \in { {}, OtherKeys } }

KeysOf(nd) == { nd.attrs[i].name : i \in 1..Len(nd.attrs) }

KeyInit ==
  /\ kpc = "call" /\ collection \in KeyCollections /\ key = Qnil
  /\ PropOff /\ WalkOff /\ ParseOff

KeyCall ==
  /\ kpc = "call"
  /\ key' = find_dummy_key(collection)
  /\ kpc' = "done"
  /\ UNCHANGED <<collection, propVars, walkVars, parseVars>>

KeyNext == KeyCall

SpecKey == KeyInit /\ [][KeyNext]_vars

\* b to the power e
RECURSIVE Pow(_, _)
Pow(b, e) == IF e = 0 THEN 1 ELSE b * Pow(b, e - 1)

\* The number of keys of 1 to size - 1 letters over an alphabet of n letters.
RECURSIVE KeyCount(_, _)
KeyCount(n, size) ==
  IF size <= 1 THEN 0 ELSE Pow(n, size - 1) + KeyCount(n, size - 1)

\* The place of a key among the keys of its length, its first letter counting
\* least (a, b, .., z, then aa, ba, ca, .., za, ab, bb, ..).
RECURSIVE FirstLetterFastest(_)
FirstLetterFastest(k) ==
  IF k = <<>> THEN 0
  ELSE (LetterIndex(Head(k)) - 1) + NumLetters * FirstLetterFastest(Tail(k))

\* The place of a key among the keys of its length in lexicographic order, its
\* first letter counting most (aa, ab, .., az, ba, ..).
RECURSIVE Lexicographic(_)
Lexicographic(k) ==
  IF k = <<>> THEN 0
  ELSE (LetterIndex(Head(k)) - 1) * Pow(NumLetters, Len(k) - 1)
         + Lexicographic(Tail(k))

FreeKeys(nd) == AllKeys \ KeysOf(nd)

\* C9, as amended: find_dummy_key tries the keys over the alphabet shortest
\* first and, within a length, with the first letter changing fastest; it
\* returns the first key in that order the collection lacks, which is never a key of
\* the collection, and returns nil exactly when the collection holds every key
\* of 1 to sizeof dummy - 1 letters.  The source's 26 letters and 5 bytes give
\* 475254 such keys.
C9_FirstFreeKey ==
  kpc = "done" =>
    /\ (key = Qnil) <=> (FreeKeys(collection) = {})
    /\ key # Qnil =>
         /\ key \in FreeKeys(collection)
         /\ \A k \in FreeKeys(collection) :
              \/ Len(key) < Len(k)
              \/ Len(key) = Len(k) /\ FirstLetterFastest(key) <= FirstLetterFastest(k)
    /\ Cardinality(AllKeys) = KeyCount(NumLetters, DummySize)
    /\ KeyCount(SourceLetters, SourceDummySize) = 475254

\* C9 as stated: the key returned is the first the collection lacks in
\* lexicographic order within each length.
C9_LexicographicOrder ==
  kpc = "done" /\ key # Qnil =>
    \A k \in FreeKeys(collection) :
      \/ Len(key) < Len(k)
      \/ Len(key) = Len(k) /\ Lexicographic(key) <= Lexicographic(k)

\* A call on a collection that lacks only "ba" and "ab": it returned "ba".
C9_Witness ==
  /\ kpc = "done"
  /\ FreeKeys(collection) = { <<"b", "a">>, <<"a", "b">> }
  /\ key = <<"b", "a">>

---------------------------------------------------------------------------
(* walk_element on one element.  The attribute and child vectors are read  *)
(* one entry an iteration; the entry is chosen when it is read.  The       *)
(* parser never gives an element two attributes of one namespace and name. *)

\* The names that fill every dummy key of one and two letters over a and b.
KeyNames == << <<"a">>, <<"b">>, <<"a", "a">>, <<"b", "a">>, <<"a", "b">>, <<"b", "b">> >>

KeyPlace(n) == CHOOSE i \in 1..Len(KeyNames) : KeyNames[i] = n

\* Attributes under those names, one with a colon in its name and one more.  The
\* attributes under KeyNames are read in the order of KeyNames, the other two
\* anywhere among them.
PoolKeys ==
  { GumboAttribute("NONE", KeyNames[i], <<"1">>) : i \in 1..Len(KeyNames) }
  \cup { GumboAttribute("NONE", <<"x", ":", "y">>, <<"2">>),
         GumboAttribute("NONE", <<"c">>, <<"3">>) }

InPoolOrder(read, a) ==
  (pool = PoolKeys /\ \E i \in 1..Len(KeyNames) : KeyNames[i] = a.name) =>
    \A j \in 1..Len(read) :
      (\E i \in 1..Len(KeyNames) : KeyNames[i] = read[j].name) =>
        KeyPlace(read[j].name) < KeyPlace(a.name)

\* Attributes of every namespace, their qualified names of several lengths.
PoolNs ==
  { GumboAttribute("NONE",  <<"c">>, <<"1">>),
    GumboAttribute("XLINK", <<"h">>, <<"1">>),
    GumboAttribute("XML",   <<"a">>, <<"1">>),
    GumboAttribute("XML",   <<"l", "a", "n", "g">>, <<>>),
    GumboAttribute("XMLNS", XmlnsName, <<"1">>),
    GumboAttribute("XMLNS", <<"a">>, <<"2">>) }

PoolFew ==
  { GumboAttribute("NONE", <<"c">>, <<"1">>),
    GumboAttribute("XML",  <<"a">>, <<"2">>) }

\* Text payloads: up to MaxText bytes, the zero byte among them.
MaxText == 3
Payloads == UNION { [1..n -> {"h", NUL}] : n \in 0..MaxText }

Leaf(type, text) == GumboNode(type, <<>>, <<>>, <<>>, text)

ChildrenFew == { Leaf("TEXT", <<"h">>), Leaf("DOCUMENT", <<>>) }

ChildrenAll ==
  { Leaf("TEXT", <<"h">>), Leaf("WHITESPACE", <<" ">>), Leaf("COMMENT", <<"c">>),
    Leaf("DOCUMENT", <<>>),
    GumboNode("ELEMENT", <<"b">>,
              <<GumboAttribute("XML", <<"a">>, <<"1">>),
                GumboAttribute("NONE", <<"c">>, <<"2">>)>>,
              <<Leaf("DOCUMENT", <<>>), Leaf("COMMENT", <<"c">>), Leaf("TEXT", <<"h">>)>>,
              <<>>),
    GumboNode("TEMPLATE", <<"t">>, <<>>, <<>>, <<>>),
    Leaf("CDATA", <<"h", NUL>>) }

\* CDATA nodes of every payload
ChildrenCData == { Leaf("CDATA", t) : t \in Payloads }

\* An element with no attributes
PoolNone == {}

ChildPool ==
  CASE pool = PoolFew  -> ChildrenAll
    [] pool = PoolKeys -> ChildrenFew
    [] pool = PoolNone -> ChildrenCData
    [] OTHER           -> {}

\* The children an element of the model has at most.
MaxChildren == 2

\* w is walk_element's own state: the element it builds, the name buffer and
\* its size, and what the attribute loop has done (see AttrStep).
WalkInit ==
  /\ wpc = "attrs"
  /\ pool \in { PoolKeys, PoolNs, PoolFew, PoolNone }
  /\ attrs = <<>> /\ kids = <<>>
  /\ w = WalkStart(<<"p">>)
  /\ KeyOff /\ PropOff /\ ParseOff

\* One iteration of the attribute loop.
WalkAttr ==
  /\ wpc = "attrs"
  /\ \E a \in pool :
       /\ \A j \in 1..Len(attrs) :
            attrs[j].name # a.name \/ attrs[j].attr_namespace # a.attr_namespace
       /\ InPoolOrder(attrs, a)
       /\ attrs' = Append(attrs, a)
       /\ w' = AttrStep(w, a, Len(attrs) + 1)
  /\ UNCHANGED <<wpc, pool, kids, keyVars, propVars, parseVars>>

\* The attribute loop ends: if (name) free(name).
WalkAttrsEnd ==
  /\ wpc = "attrs"
  /\ wpc' = "children"
  /\ w' = [w EXCEPT !.name = NULLPTR]
  /\ UNCHANGED <<pool, attrs, kids, keyVars, propVars, parseVars>>

\* One iteration of the children loop.
WalkChild ==
  /\ wpc = "children"
  /\ Len(kids) < MaxChildren
  /\ \E c \in ChildPool :
       /\ kids' = Append(kids, c)
       /\ w' = [w EXCEPT !.element = ChildStep(w.element, c)]
  /\ UNCHANGED <<wpc, pool, attrs, keyVars, propVars, parseVars>>

\* return element
WalkReturn ==
  /\ wpc = "children"
  /\ wpc' = "done"
  /\ UNCHANGED <<pool, attrs, kids, w, keyVars, propVars, parseVars>>

WalkNext == WalkAttr \/ WalkAttrsEnd \/ WalkChild \/ WalkReturn

SpecWalk == WalkInit /\ [][WalkNext]_vars

\* The qualified name of an attribute by the table of prefixes.
QualifiedName(a) ==
  CASE a.attr_namespace = "NONE"  -> a.name
    [] a.attr_namespace = "XLINK" -> XLinkPrefix \o a.name
    [] a.attr_namespace = "XML"   -> XmlPrefix \o a.name
    [] a.attr_namespace = "XMLNS" ->
         IF a.name = XmlnsName THEN a.name ELSE XmlnsPrefix \o a.name

\* C1: the name walk_element hands to xmlNewProp for its i-th attribute is the
\* attribute's name behind "", "xlink:", "xml:" or "xmlns:" by its namespace,
\* an XMLNS attribute named "xmlns" keeping its name; this at every place of the
\* list, whatever the name buffer held before, and no write leaves the buffer.
C1_QualifiedNames ==
  wpc # "off" =>
    /\ ~w.overflow
    /\ Len(w.handed) = Len(attrs)
    /\ \A i \in 1..Len(attrs) : w.handed[i] = QualifiedName(attrs[i])

\* Three prefixed names in a row, the second shorter than the first and the
\* third longer, and the default-namespace declaration.
C1_Witness ==
  /\ wpc = "done"
  /\ \E i \in 1..Len(attrs) :
       attrs[i].attr_namespace = "XMLNS" /\ w.handed[i] = XmlnsName
  /\ \E i \in 1..(Len(attrs) - 2) :
       /\ \A j \in i..(i + 2) : NsOf(attrs[j]) # NULLPTR
       /\ Len(w.handed[i + 1]) < Len(w.handed[i])
       /\ Len(w.handed[i + 2]) > Len(w.handed[i])

\* s without the entries at the places in S
RECURSIVE Without(_, _, _)
Without(s, S, i) ==
  IF i > Len(s) THEN <<>>
  ELSE (IF i \in S THEN <<>> ELSE <<s[i]>>) \o Without(s, S, i + 1)

\* C8: an attribute whose name has a colon, met when every dummy key is an
\* attribute of the element, is skipped and nothing else is: the element is the
\* one walk_element builds from the source without that attribute, later
\* attributes and every child included.
C8_SkipOnlyThatAttribute ==
  wpc # "off" =>
    LET keptAttrs == Without(attrs, w.skipped, 1)
        names(i)  == { w.element.attrs[j].name : j \in 1..Len(w.element.attrs) }
                       \cap { QualifiedName(attrs[j]) : j \in 1..(i - 1) }
    IN  /\ w.element =
             WalkChildren(WalkAttrs(WalkStart(<<"p">>), keptAttrs, 1).element, kids, 1)
        /\ Len(w.element.attrs) = Len(keptAttrs)
        /\ \A i \in 1..Len(attrs) :
             i \in w.skipped <=>
               HasColon(QualifiedName(attrs[i])) /\ AllKeys \subseteq names(i)

\* An attribute was skipped, a later one installed and a child attached.
C8_Witness ==
  /\ wpc = "done"
  /\ \E i \in w.skipped : i < Len(attrs) /\ ~HasColon(attrs[Len(attrs)].name)
  /\ w.element.attrs[Len(w.element.attrs)].name = attrs[Len(attrs)].name
  /\ Len(w.element.children) > 0

\* The bytes of a payload before its first zero byte.
BeforeZero(t) ==
  LET n == CHOOSE m \in 0..Len(t) :
             /\ \A i \in 1..m : t[i] # NUL
             /\ m = Len(t) \/ t[m + 1] = NUL
  IN  SubSeq(t, 1, n)

\* The children of the parse tree walk_tree makes a node of.
Produced(gkids) == SelectSeq(gkids, LAMBDA g : g.type # "DOCUMENT")

\* C5, as amended: the node made of a CDATA parse node holds the payload's bytes
\* before its first zero byte, which is the whole payload when it has none.
C5_CDataToFirstZero ==
  wpc # "off" =>
    /\ Len(w.element.children) = Len(Produced(kids))
    /\ \A j \in 1..Len(Produced(kids)) :
         Produced(kids)[j].type = "CDATA" =>
           /\ w.element.children[j].kind = "cdata"
           /\ w.element.children[j].text = BeforeZero(Produced(kids)[j].text)

\* C5 as stated: the node holds every byte of the payload.
C5_WholePayload ==
  wpc # "off" =>
    \A j \in 1..Len(Produced(kids)) :
      (Produced(kids)[j].type = "CDATA" /\ j <= Len(w.element.children)) =>
         w.element.children[j].text = Produced(kids)[j].text

\* A CDATA child with a zero byte between two others, and one without.
C5_Witness ==
  /\ wpc = "done"
  /\ Len(kids) = 2
  /\ kids[1] = Leaf("CDATA", <<"h", NUL, "h">>)
  /\ kids[2] = Leaf("CDATA", <<"h", "h">>)
  /\ w.element.children[1].text = <<"h">>
  /\ w.element.children[2].text = <<"h", "h">>

---------------------------------------------------------------------------
(* xmlNewProp and new_html_doc on their own, the library's calls failing   *)
(* or not.  An element gets its attributes by calls of xmlNewProp, under   *)
(* names met before or not.                                                *)

PropNames  == { <<"a">>, <<"x", ":", "y">>, <<"x", "m", "l", ":", "a">> }
PropValues == { <<"1">>, <<"2">> }

\* The calls of the library that fail in one run, at most.
MaxFailures == 1

PropInit ==
  /\ node = NewNode("element", <<"p">>, <<>>)
  /\ ret = Qnil /\ last = NoCall /\ failures = 0 /\ hdoc = NoDoc
  /\ KeyOff /\ WalkOff /\ ParseOff

PropInstall ==
  /\ \E nm \in PropNames, v \in PropValues, setOk \in BOOLEAN, lookupOk \in BOOLEAN :
       /\ (~setOk \/ ~lookupOk) => failures < MaxFailures /\ HasColon(nm)
       /\ setOk \/ lookupOk
       /\ LET r == xmlNewProp(node, CStr(nm), CStr(v), setOk, lookupOk)
          IN  /\ node' = r.node
              /\ ret' = r.ret
       /\ last' = [name |-> nm, value |-> v, setOk |-> setOk, lookupOk |-> lookupOk,
                   before |-> node, called |-> TRUE]
       /\ failures' = IF setOk /\ lookupOk THEN failures ELSE failures + 1
  /\ UNCHANGED <<hdoc, keyVars, walkVars, parseVars>>

DocNames == { NULLPTR, CStr(<<"h", "t", "m", "l">>) }
DocIds   == { NULLPTR, CStr(<<"i">>) }

PropNewDoc ==
  /\ ~hdoc.called
  /\ \E dtd_name \in DocNames, system \in DocIds, public \in DocIds, made \in BOOLEAN :
       /\ dtd_name = NULLPTR => system = NULLPTR /\ public = NULLPTR
       /\ hdoc' = [dtd_name |-> dtd_name, system |-> system, public |-> public,
                   made |-> made, called |-> TRUE,
                   doc |-> new_html_doc(dtd_name, system, public, made)]
  /\ UNCHANGED <<node, ret, last, failures, keyVars, walkVars, parseVars>>

PropNext == PropInstall \/ PropNewDoc

SpecProp == PropInit /\ [][PropNext]_vars

NamesOf(nd) == { nd.attrs[i].name : i \in 1..Len(nd.attrs) }

NotNamed(nd, q) == SelectSeq(nd.attrs, LAMBDA a : a.name # q)

\* C2: after xmlNewProp has installed an attribute whose name has a colon, on an
\* element with whatever attributes, the element has exactly one attribute of
\* that whole name, with the value given and no namespace; it has no name it
\* had not before but that one (no dummy key is left); attribute names are
\* unique; and the attributes under other names are as they were.
C2_ColonNameInstalled ==
  /\ \A i, j \in 1..Len(node.attrs) :
       node.attrs[i].name = node.attrs[j].name => i = j
  /\ (last.called /\ HasColon(last.name) /\ ret # Qnil) =>
       /\ Cardinality({ i \in 1..Len(node.attrs) : node.attrs[i].name = last.name }) = 1
       /\ \A i \in 1..Len(node.attrs) :
            node.attrs[i].name = last.name =>
              node.attrs[i].value = last.value /\ node.attrs[i].ns = NoNs
       /\ NamesOf(node) = NamesOf(last.before) \cup {last.name}
       /\ NotNamed(node, last.name) = NotNamed(last.before, last.name)

\* "x:y" installed on an element that had "x:y" with another value and "a", the
\* first dummy key.
C2_Witness ==
  /\ last.called /\ ret # Qnil /\ failures = 0
  /\ last.name = <<"x", ":", "y">>
  /\ <<"a">> \in NamesOf(last.before)
  /\ \E i \in 1..Len(last.before.attrs) :
       last.before.attrs[i].name = last.name /\ last.before.attrs[i].value # last.value

\* C10, as amended: in a colon-name install, a set under the dummy key that
\* fails leaves the element as it was; a lookup of the dummy attribute that
\* fails makes xmlNewProp return nil with nothing renamed, the dummy attribute
\* left on the element and the attribute that was under the real name removed.
\* In new_html_doc with no identifiers, remove is called on what
\* internal_subset answers: a new document with no internal subset makes that
\* call raise, and no document is returned.
C10_FailedHelpers ==
  /\ (last.called /\ HasColon(last.name) /\ ~last.setOk) =>
       ret = Qnil /\ node = last.before
  /\ (last.called /\ HasColon(last.name) /\ ~last.lookupOk) =>
       /\ ret = Qnil
       /\ IF FreeKeys(last.before) = {} THEN node = last.before
          ELSE \E d \in FreeKeys(last.before) :
                 node.attrs = NotNamed(last.before, last.name)
                                \o <<Attr(NoNs, d, last.value)>>
  /\ (hdoc.called /\ hdoc.system = NULLPTR /\ hdoc.public = NULLPTR) =>
       (hdoc.doc.raised <=> ~hdoc.made)

\* C10 as stated: after a set or a lookup that failed the element is as it was
\* before the install; a new document with no internal subset to remove is left
\* alone and nothing is raised.
C10_FailuresAreNoOps ==
  /\ (last.called /\ HasColon(last.name) /\ ~(last.setOk /\ last.lookupOk)) =>
       node = last.before
  /\ (hdoc.called /\ hdoc.system = NULLPTR /\ hdoc.public = NULLPTR /\ ~hdoc.made) =>
       ~hdoc.doc.raised

\* A lookup failed on an element that had the real name, and a document came
\* without an internal subset.
C10_Witness ==
  /\ last.called /\ ~last.lookupOk /\ ret = Qnil
  /\ last.name \in NamesOf(last.before)
  /\ last.name \notin NamesOf(node)
  /\ hdoc.called /\ ~hdoc.made /\ hdoc.system = NULLPTR /\ hdoc.public = NULLPTR
  /\ hdoc.doc.raised

---------------------------------------------------------------------------
(* parse                                                                   *)

\* The children the document node of the model has at most, and the errors
\* the parser reports at most.
MaxTop    == 2
MaxErrors == 2

TopChildren ==
  { Leaf("COMMENT", <<"c">>), Leaf("TEXT", <<"h">>), Leaf("DOCUMENT", <<>>),
    GumboNode("ELEMENT", <<"p">>,
              <<GumboAttribute("NONE", <<"a">>, <<"1">>),
                GumboAttribute("NONE", <<"b">>, <<"2">>)>>,
              <<Leaf("TEXT", <<"x">>), Leaf("COMMENT", <<"y">>)>>, <<>>),
    GumboNode("ELEMENT", <<"h", "t", "m", "l">>,
              <<GumboAttribute("XML", <<"l", "a", "n", "g">>, <<"1">>),
                GumboAttribute("NONE", <<"a">>, <<"2">>),
                GumboAttribute("NONE", <<"x", ":", "y">>, <<"3">>),
                GumboAttribute("XMLNS", XmlnsName, <<"4">>),
                GumboAttribute("XLINK", <<"h">>, <<"5">>)>>,
              <<GumboNode("ELEMENT", <<"b">>,
                          <<GumboAttribute("NONE", <<"x", ":", "y">>, <<"1">>),
                            GumboAttribute("NONE", <<"a">>, <<"2">>)>>,
                          <<Leaf("WHITESPACE", <<" ">>)>>, <<>>),
                Leaf("DOCUMENT", <<>>),
                Leaf("CDATA", <<"h">>),
                GumboNode("TEMPLATE", <<"t">>, <<>>, <<Leaf("TEXT", <<"h">>)>>, <<>>)>>,
              <<>>) }

TopLists == UNION { [1..n -> TopChildren] : n \in 0..MaxTop }

ParserErrors == { GumboError(0, 1, 1), GumboError(7, 2, 5) }

ErrorLists == UNION { [1..n -> ParserErrors] : n \in 0..MaxErrors }

DoctypeIds == { <<>>, <<"i">> }

\* The root is none or the first element among the children.
Roots(children) ==
  {0} \cup { i \in 1..Len(children) :
               /\ children[i].type = "ELEMENT"
               /\ \A j \in 1..(i - 1) : children[j].type # "ELEMENT" }

\* What gumbo_parse_with_options may give with options.max_errors = max_errors;
\* a negative max_errors is no limit.
Outputs(max_errors) ==
  { GumboOutput(d.has, d.name, d.public, d.system, c, r, e) :
      d \in { [has |-> FALSE, name |-> <<>>, public |-> <<>>, system |-> <<>>] }
            \cup { [has |-> TRUE, name |-> <<"h", "t", "m", "l">>,
                    public |-> pb, system |-> sy] :
                     pb \in DoctypeIds, sy \in DoctypeIds },
      c \in TopLists,
      r \in 0..MaxTop,
      e \in { l \in ErrorLists : max_errors < 0 \/ Len(l) <= max_errors } }

Init ==
  /\ pc = "Idle" /\ output = NoOutput /\ doc = NoDoc.doc /\ idx = 0
  /\ rerrors = <<>> /\ url = <<>> /\ destroyed = 0 /\ readFreed = FALSE
  /\ KeyOff /\ PropOff /\ WalkOff

\* gumbo_parse_with_options
Parse ==
  /\ pc = "Idle"
  /\ \E max_errors \in -1..MaxErrors :
       \E out \in Outputs(max_errors) :
         /\ out.root \in Roots(out.children)
         /\ output' = out
  /\ url' \in { <<"u">>, Qnil }
  /\ pc' = "Parsed"
  /\ UNCHANGED <<doc, idx, rerrors, destroyed, readFreed, keyVars, propVars, walkVars>>

\* new_html_doc, by output->document->v.document.has_doctype
Synthesize ==
  /\ pc = "Parsed"
  /\ doc' = SynthesizedDoc(output)
  /\ pc' = "Synthesized"
  /\ readFreed' = (readFreed \/ ~output.alive)
  /\ UNCHANGED <<output, idx, rerrors, url, destroyed, keyVars, propVars, walkVars>>

\* The loop over the document's children begins.
WalkBegin ==
  /\ pc = "Synthesized"
  /\ idx' = 0
  /\ pc' = "Walking"
  /\ readFreed' = (readFreed \/ ~output.alive)
  /\ UNCHANGED <<output, doc, rerrors, url, destroyed, keyVars, propVars, walkVars>>

\* One iteration of that loop.
WalkTop ==
  /\ pc = "Walking"
  /\ idx < Len(output.children)
  /\ doc' = TopStep(doc, output, idx + 1)
  /\ idx' = idx + 1
  /\ readFreed' = (readFreed \/ ~output.alive)
  /\ UNCHANGED <<pc, output, rerrors, url, destroyed, keyVars, propVars, walkVars>>

\* The loop ends; if (output->errors.length), rerrors = rb_ary_new2(..).
WalkEnd ==
  /\ pc = "Walking"
  /\ idx = Len(output.children)
  /\ pc' = IF Len(output.errors) # 0 THEN "Translating" ELSE "ErrorsAttached"
  /\ rerrors' = <<>>
  /\ readFreed' = (readFreed \/ ~output.alive)
  /\ UNCHANGED <<output, doc, idx, url, destroyed, keyVars, propVars, walkVars>>

\* One iteration of the loop over the errors: rb_ary_push(rerrors, syntax_error).
ErrPush ==
  /\ pc = "Translating"
  /\ Len(rerrors) < Len(output.errors)
  /\ rerrors' = Append(rerrors, SyntaxError(output.errors[Len(rerrors) + 1], url))
  /\ readFreed' = (readFreed \/ ~output.alive)
  /\ UNCHANGED <<pc, output, doc, idx, url, destroyed, keyVars, propVars, walkVars>>

\* rb_iv_set(rdoc, "@errors", rerrors)
ErrAttach ==
  /\ pc = "Translating"
  /\ Len(rerrors) = Len(output.errors)
  /\ doc' = [doc EXCEPT !.errors = rerrors]
  /\ pc' = "ErrorsAttached"
  /\ readFreed' = (readFreed \/ ~output.alive)
  /\ UNCHANGED <<output, idx, rerrors, url, destroyed, keyVars, propVars, walkVars>>

\* gumbo_destroy_output run where the error loop begins.
DestroyBeforeErrors ==
  /\ pc = "Translating"
  /\ output.alive
  /\ output' = [output EXCEPT !.alive = FALSE]
  /\ destroyed' = destroyed + 1
  /\ UNCHANGED <<pc, doc, idx, rerrors, url, readFreed, keyVars, propVars, walkVars>>

\* gumbo_destroy_output(output)
Destroy ==
  /\ pc = "ErrorsAttached"
  /\ output' = [output EXCEPT !.alive = FALSE]
  /\ destroyed' = destroyed + 1
  /\ pc' = "Destroyed"
  /\ UNCHANGED <<doc, idx, rerrors, url, readFreed, keyVars, propVars, walkVars>>

\* return rdoc
Return ==
  /\ pc = "Destroyed"
  /\ pc' = "Done"
  /\ UNCHANGED <<output, doc, idx, rerrors, url, destroyed, readFreed,
                 keyVars, propVars, walkVars>>

Next ==
  \/ Parse \/ Synthesize \/ WalkBegin \/ WalkTop \/ WalkEnd
  \/ ErrPush \/ ErrAttach \/ Destroy \/ Return

Spec == Init /\ [][Next]_vars

\* Past new_html_doc.
Synthesized ==
  pc \in {"Synthesized", "Walking", "Translating", "ErrorsAttached", "Destroyed", "Done"}

NilIfEmpty(id) == IF id = <<>> THEN Qnil ELSE id

\* C3: after new_html_doc the document has an internal subset exactly when the
\* parse tree has a doctype; its name is then the doctype's name and its public
\* and system identifiers are the parse tree's, each in its own role, an empty
\* identifier as nil.
C3_InternalSubset ==
  Synthesized =>
    /\ ~doc.raised
    /\ doc.subset.present <=> output.has_doctype
    /\ output.has_doctype =>
         /\ doc.subset.name = output.name
         /\ doc.subset.external = NilIfEmpty(output.public_identifier)
         /\ doc.subset.system = NilIfEmpty(output.system_identifier)

\* Doctype "html" with both identifiers empty: a subset named "html", both nil.
C3_Witness ==
  /\ pc = "Synthesized"
  /\ output.has_doctype
  /\ output.public_identifier = <<>> /\ output.system_identifier = <<>>
  /\ doc.subset = [present |-> TRUE, name |-> <<"h", "t", "m", "l">>,
                   external |-> Qnil, system |-> Qnil]

\* The attributes an element is to have, from its attribute list in order: each
\* under its qualified name, one with a colon left out when every dummy key is
\* a name the element has by then (C8).
RECURSIVE ExpectedAttrs(_, _, _)
ExpectedAttrs(gattrs, i, acc) ==
  IF i > Len(gattrs) THEN acc
  ELSE LET q == QualifiedName(gattrs[i])
       IN  IF HasColon(q) /\ AllKeys \subseteq { acc[j].name : j \in 1..Len(acc) }
           THEN ExpectedAttrs(gattrs, i + 1, acc)
           ELSE ExpectedAttrs(gattrs, i + 1, Append(acc, Attr(NoNs, q, gattrs[i].value)))

\* The node a parse node is to become, and the nodes a child list is to become.
RECURSIVE Expected(_), ExpectedKids(_)
Expected(g) ==
  CASE g.type \in {"ELEMENT", "TEMPLATE"} ->
         [kind |-> "element", name |-> g.name, text |-> <<>>,
          attrs |-> ExpectedAttrs(g.attributes, 1, <<>>),
          children |-> ExpectedKids(g.children)]
    [] g.type \in {"TEXT", "WHITESPACE"} -> NewNode("text", <<>>, BeforeZero(g.text))
    [] g.type = "CDATA"   -> NewNode("cdata", <<>>, BeforeZero(g.text))
    [] g.type = "COMMENT" -> NewNode("comment", <<>>, BeforeZero(g.text))

ExpectedKids(gkids) ==
  [j \in 1..Len(Produced(gkids)) |-> Expected(Produced(gkids)[j])]

\* C4: the attributes of a built element stand in the order of the element's
\* attribute list and its children in the order of its child list, each child
\* walk_tree makes a node of being appended last, once; so do the document's
\* children; with and without colons in the attribute names.
C4_OrderPreserved ==
  Synthesized =>
    doc.children = ExpectedKids(SubSeq(output.children, 1, idx))

\* A comment and then the root with five attributes, three of them with a colon
\* in their qualified names, and three children kept of four.
C4_Witness ==
  /\ pc = "Done"
  /\ Len(doc.children) = 2
  /\ doc.children[1].kind = "comment"
  /\ output.root = 2
  /\ Len(doc.children[2].attrs) = 5
  /\ doc.children[2].attrs[1].name = <<"x", "m", "l", ":", "l", "a", "n", "g">>
  /\ doc.children[2].attrs[3].name = <<"x", ":", "y">>
  /\ Len(doc.children[2].children) = 3

\* C6: the document parse returns has as its errors one entry for each error
\* the parser reported, in the parser's order, with that error's line, column
\* and type code, the caller's url as file and domain 1, code 1, level 2.
C6_ErrorsAttached ==
  pc \in {"ErrorsAttached", "Destroyed", "Done"} =>
    /\ Len(doc.errors) = Len(output.errors)
    /\ \A i \in 1..Len(output.errors) :
         /\ doc.errors[i].line = output.errors[i].line
         /\ doc.errors[i].column = output.errors[i].column
         /\ doc.errors[i].int1 = output.errors[i].type
         /\ doc.errors[i].message = CaretDiagnostic(output.errors[i])
         /\ doc.errors[i].file = url
         /\ doc.errors[i].domain = 1
         /\ doc.errors[i].code = 1
         /\ doc.errors[i].level = 2

\* Two different errors, attached in the parser's order.
C6_Witness ==
  /\ pc = "Done"
  /\ output.errors = <<GumboError(7, 2, 5), GumboError(0, 1, 1)>>
  /\ Len(doc.errors) = 2
  /\ doc.errors[1].line = 2 /\ doc.errors[1].column = 5
  /\ doc.errors[2].line = 1

Rank(p) ==
  CASE p = "Idle" -> 0 [] p = "Parsed" -> 1 [] p = "Synthesized" -> 2
    [] p = "Walking" -> 3 [] p = "Translating" -> 4 [] p = "ErrorsAttached" -> 5
    [] p = "Destroyed" -> 6 [] p = "Done" -> 7 [] OTHER -> 0

\* C7: parse goes from step to step in the order parsing, synthesis, walk,
\* error attachment, destruction, return, never back (the error loop is passed
\* over when there are no errors); the parse tree is destroyed once, on every
\* path to the return, after the last child is walked and the errors are
\* attached; nothing reads it once destroyed.
C7_StepsInOrder ==
  /\ [](pc # "off" =>
          /\ ~readFreed
          /\ destroyed = (IF pc \in {"Destroyed", "Done"} THEN 1 ELSE 0)
          /\ output.alive <=>
               pc \in {"Parsed", "Synthesized", "Walking", "Translating", "ErrorsAttached"}
          /\ destroyed = 1 =>
               /\ idx = Len(output.children)
               /\ Len(doc.children) = Len(Produced(output.children))
               /\ Len(doc.errors) = Len(output.errors)
          /\ pc = "Done" => destroyed = 1
          /\ idx <= Len(output.children) /\ Len(rerrors) <= Len(output.errors))
  /\ [][ /\ Rank(pc') >= Rank(pc)
         /\ \/ Rank(pc') <= Rank(pc) + 1
            \/ pc = "Walking" /\ pc' = "ErrorsAttached" /\ Len(output.errors) = 0 ]_vars

\* The return of a parse of a document with no children, no root, no doctype
\* and no errors.
C7_Witness ==
  /\ pc = "Done"
  /\ destroyed = 1
  /\ output.children = <<>> /\ output.root = 0 /\ output.errors = <<>>

====
